---- MODULE Spec2Model ----
(***************************************************************************)
(* X3D viewer (src/src/main.rs): shader setup in X3D::new, the render loop *)
(* of X3D::run and the orbit Camera.                                       *)
(*                                                                         *)
(* Number representations                                                  *)
(*   zoom        f32, held as an integer count of 2^-27 (every value the   *)
(*               scroll arithmetic produces from whole-notch offsets is a  *)
(*               multiple of 2^-27; F32Round rounds to a 24-bit mantissa,  *)
(*               ties to even, as the hardware does).                      *)
(*   dx, dy      f32 angles in radians, held as a count of 2^-31.          *)
(*   position    position - target in polar form about the up axis:        *)
(*               squared radius, elevation and azimuth in whole            *)
(*               milliradians, or NaN.  A rotation about the right vector  *)
(*               changes the elevation only, a rotation about up changes   *)
(*               the azimuth only.                                         *)
(*   f64 inputs  whole numbers, or a magnitude beyond the f32 range        *)
(*               (which the cast `as f32` turns into an infinity).         *)
(***************************************************************************)
EXTENDS Integers, Sequences, FiniteSets, TLC

VARIABLES
    pc,               \* position in main: X3D::new, then X3D::run
    vertex_shader,    \* shader object of the vertex stage
    fragment_shader,  \* shader object of the fragment stage
    shader_program,   \* program object
    abort,            \* how the process died, if it did
    camera,           \* X3D.camera
    should_close,     \* the window's should-close flag
    events,           \* messages of the current batch not yet dispatched
    delivered,        \* number of events the window system has queued so far
    steps,            \* what the current iteration has done so far
    batch,            \* the batch the current iteration polled
    prev,             \* camera before the event dispatched last in this iteration
    lastEv,           \* the event dispatched last in this iteration
    drawn,            \* what the most recent draw call used
    escaped,          \* an Escape press has been dispatched
    cursorSeen,       \* coordinates of the most recent cursor event
    calls,            \* number of direct Camera calls (camera harness)
    streak,           \* offset shared by all direct scroll calls so far
    frameCam          \* camera when the current iteration polled

vars == <<pc, vertex_shader, fragment_shader, shader_program, abort, camera,
          should_close, events, delivered, steps, batch, prev, lastEv, drawn,
          escaped, cursorSeen, calls, streak, frameCam>>

----------------------------------------------------------------------------
(* Bounds of the model *)

MaxEvents == 3
MaxLogLen == 2
MaxScrolls == 63

----------------------------------------------------------------------------
(* f32 arithmetic *)

MantissaBits == 24

RECURSIVE Pow2(_)
Pow2(n) == IF n = 0 THEN 1 ELSE 2 * Pow2(n - 1)

RECURSIVE BitLen(_)
BitLen(n) == IF n = 0 THEN 0 ELSE 1 + BitLen(n \div 2)

Abs(n) == IF n < 0 THEN -n ELSE n

\* round a magnitude to MantissaBits significant bits, ties to even
RoundMag(n) ==
    IF BitLen(n) <= MantissaBits THEN n
    ELSE LET q == Pow2(BitLen(n) - MantissaBits)
             r == n % q
             lo == n - r
         IN  IF 2 * r > q \/ (2 * r = q /\ (lo \div q) % 2 = 1)
             THEN lo + q ELSE lo

F32Round(n) == IF n < 0 THEN -RoundMag(-n) ELSE RoundMag(n)

Fin(n) == [inf |-> 0, n |-> n]
PosInf == [inf |-> 1, n |-> 0]
NegInf == [inf |-> -1, n |-> 0]

\* `v as f32` for an f64 v: a magnitude beyond the f32 range becomes infinite
AsF32(v) == IF v.inf # 0 THEN [inf |-> v.inf, n |-> 0] ELSE Fin(v.n)

\* a * c for a positive finite constant c
F32Mul(a, c) == IF a.inf # 0 THEN a ELSE Fin(F32Round(a.n * c))

\* z - d for a finite z
F32Sub(z, d) ==
    IF d.inf = 1 THEN NegInf
    ELSE IF d.inf = -1 THEN PosInf
    ELSE Fin(F32Round(z - d.n))

\* f32::max and f32::min against a finite constant
F32Max(a, m) ==
    IF a.inf = 1 THEN a
    ELSE IF a.inf = -1 THEN Fin(m)
    ELSE IF a.n < m THEN Fin(m) ELSE a

F32Min(a, m) ==
    IF a.inf = -1 THEN a
    ELSE IF a.inf = 1 THEN Fin(m)
    ELSE IF a.n > m THEN Fin(m) ELSE a

----------------------------------------------------------------------------
(* Camera *)

ZoomInit == 134217728      \* 1.0
ZoomStep == 13421773       \* 0.1f32
ZoomMin == 13421773        \* 0.1f32
ZoomMax == 671088640       \* 5.0
Sensitivity == 10737418    \* 0.005f32, in 2^-31

QuarterTurn == 1570        \* pi/2 in milliradians
HalfTurn == 2 * QuarterTurn
FullTurn == 4 * QuarterTurn
InitElevation == 615       \* elevation of (2,2,2): atan(1/sqrt 2)
InitAzimuth == 785         \* azimuth of (2,2,2): pi/4

NaNPos == [nan |-> TRUE, r2 |-> 0, elev |-> 0, azim |-> 0]

CameraNew ==
    [position |-> [nan |-> FALSE, r2 |-> 2 * 2 + 2 * 2 + 2 * 2,
                   elev |-> InitElevation, azim |-> InitAzimuth],
     target |-> <<0, 0, 0>>,
     up |-> <<0, 1, 0>>,
     zoom |-> ZoomInit,
     last_mouse_pos |-> <<0, 0>>,
     is_rotating |-> FALSE]

\* an f32 angle (count of 2^-31 rad) to the nearest whole milliradian
Mrad(a) ==
    LET m == ((Abs(a) \div Pow2(11)) * 1000 + Pow2(19)) \div Pow2(20)
    IN  IF a < 0 THEN -m ELSE m

\* mutant of MouseDelta: the horizontal and vertical deltas exchanged
MouseDeltaSwapped(cam, xpos, ypos) ==
    [dx |-> F32Mul(Fin(cam.last_mouse_pos[2] - ypos), Sensitivity).n,
     dy |-> F32Mul(Fin(xpos - cam.last_mouse_pos[1]), Sensitivity).n]

\* dx and dy of process_mouse
MouseDelta(cam, xpos, ypos) ==
    [dx |-> F32Mul(Fin(xpos - cam.last_mouse_pos[1]), Sensitivity).n,
     dy |-> F32Mul(Fin(cam.last_mouse_pos[2] - ypos), Sensitivity).n]

\* cross(normalize(position - target), up)
Right(pos) ==
    IF pos.nan THEN "nan"
    ELSE IF Abs(pos.elev) = QuarterTurn THEN "zero"
    ELSE "horizontal"

\* rotate(identity, angle, right) applied to position - target
Pitch(pos, angle, right) ==
    IF pos.nan THEN NaNPos
    ELSE IF angle = 0 THEN pos
    ELSE IF right # "horizontal" THEN NaNPos
    ELSE LET e == pos.elev + Mrad(angle)
         IN  IF Abs(e) = QuarterTurn
             THEN [pos EXCEPT !.elev = e, !.azim = 0]
             ELSE IF e > QuarterTurn
             THEN [pos EXCEPT !.elev = HalfTurn - e,
                              !.azim = (pos.azim + HalfTurn) % FullTurn]
             ELSE IF e < -QuarterTurn
             THEN [pos EXCEPT !.elev = -HalfTurn - e,
                              !.azim = (pos.azim + HalfTurn) % FullTurn]
             ELSE [pos EXCEPT !.elev = e]

\* rotate(identity, angle, up) applied to position - target
Yaw(pos, angle) ==
    IF pos.nan THEN NaNPos
    ELSE IF Abs(pos.elev) = QuarterTurn THEN pos
    ELSE [pos EXCEPT !.azim = (pos.azim + Mrad(angle) + FullTurn) % FullTurn]

\* mutant of ProcessMouse: the is_rotating test dropped
ProcessMouseAlwaysRotates(cam, xpos, ypos) ==
    LET d == MouseDelta(cam, xpos, ypos)
        right == Right(cam.position)
    IN  [cam EXCEPT !.position = Yaw(Pitch(@, d.dy, right), d.dx),
                    !.last_mouse_pos = <<xpos, ypos>>]

ProcessMouse(cam, xpos, ypos) ==
    LET d == MouseDelta(cam, xpos, ypos)
        right == Right(cam.position)
        rotated == Yaw(Pitch(cam.position, d.dy, right), d.dx)
    IN  [cam EXCEPT !.position = IF cam.is_rotating THEN rotated ELSE @,
                    !.last_mouse_pos = <<xpos, ypos>>]

\* mutant of ProcessScroll: the .max(0.1) dropped
ProcessScrollNoFloor(cam, yoffset) ==
    LET z == F32Sub(cam.zoom, F32Mul(AsF32(yoffset), ZoomStep))
    IN  [cam EXCEPT !.zoom = F32Min(z, ZoomMax).n]

\* mutant of ProcessScroll: += in place of -=
ProcessScrollAdds(cam, yoffset) ==
    LET o == AsF32(yoffset)
        z == F32Sub(cam.zoom,
                    F32Mul([inf |-> -o.inf, n |-> -o.n], ZoomStep))
    IN  [cam EXCEPT !.zoom = F32Min(F32Max(z, ZoomMin), ZoomMax).n]

ProcessScroll(cam, yoffset) ==
    LET z == F32Sub(cam.zoom, F32Mul(AsF32(yoffset), ZoomStep))
    IN  [cam EXCEPT !.zoom = F32Min(F32Max(z, ZoomMin), ZoomMax).n]

GetViewMatrix(cam) ==
    [eye |-> [position |-> cam.position, scale |-> cam.zoom],
     center |-> cam.target,
     up |-> cam.up]

----------------------------------------------------------------------------
(* Shader stage *)

CompilePrefix == "Shader compilation failed: "
LinkPrefix == "Program linking failed: "

\* info logs a driver can hold: len counts the terminating NUL, so a log of
\* k characters reports k + 1, and "no log at all" reports 0
LogChars == {"e", "w"}
RECURSIVE LogsOfLen(_)
LogsOfLen(k) ==
    IF k = 0 THEN {<<>>}
    ELSE {<<c>> \o l : c \in LogChars, l \in LogsOfLen(k - 1)}
InfoLogs ==
    {[len |-> 0, text |-> <<>>]} \cup
    UNION {{[len |-> k + 1, text |-> l] : l \in LogsOfLen(k)} :
              k \in 0..(MaxLogLen - 1)}

\* the failure branch shared by compile_shader and link_program: the ways
\* the process can die for an info log.  buf.set_len((len as usize) - 1)
\* with len = 0 overflows: a build with overflow checks panics there with
\* the arithmetic-overflow message; without them the length wraps to
\* usize::MAX and the later read of buf is undefined (a crash, or a message
\* made of whatever memory follows the buffer).
InfoLogAbort(prefix, log) ==
    IF log.len >= 1
    THEN {[kind |-> "panic", prefix |-> prefix, text |-> log.text,
           log |-> log]}
    ELSE {[kind |-> "overflow_panic", prefix |-> "", text |-> <<>>,
           log |-> log],
          [kind |-> "crash", prefix |-> "", text |-> <<>>, log |-> log],
          [kind |-> "panic", prefix |-> prefix, text |-> <<"?">>,
           log |-> log]}

NoAbort ==
    [kind |-> "none", prefix |-> "", text |-> <<>>,
     log |-> [len |-> 0, text |-> <<>>]]

\* compile_shader(vertex.glsl, VERTEX_SHADER)
CompileVertex ==
    /\ pc = "compile_vertex"
    /\ \E success \in BOOLEAN, log \in InfoLogs :
          IF success
          THEN /\ vertex_shader' = "compiled"
               /\ pc' = "compile_fragment"
               /\ abort' = abort
          ELSE /\ vertex_shader' = "created"
               /\ pc' = "aborted"
               /\ abort' \in InfoLogAbort(CompilePrefix, log)
    /\ UNCHANGED <<fragment_shader, shader_program, camera, should_close,
                   events, delivered, steps, batch, prev, lastEv, drawn,
                   escaped, cursorSeen, calls, streak, frameCam>>

\* compile_shader(fragment.glsl, FRAGMENT_SHADER)
CompileFragment ==
    /\ pc = "compile_fragment"
    /\ \E success \in BOOLEAN, log \in InfoLogs :
          IF success
          THEN /\ fragment_shader' = "compiled"
               /\ pc' = "link"
               /\ abort' = abort
          ELSE /\ fragment_shader' = "created"
               /\ pc' = "aborted"
               /\ abort' \in InfoLogAbort(CompilePrefix, log)
    /\ UNCHANGED <<vertex_shader, shader_program, camera, should_close,
                   events, delivered, steps, batch, prev, lastEv, drawn,
                   escaped, cursorSeen, calls, streak, frameCam>>

\* mutant of LinkOutcome: the link status not looked at
LinkOutcomeUnchecked(success, log) ==
    {[pc |-> "init_buffers",
      program |-> IF success THEN "linked" ELSE "created",
      shaders |-> "deleted", abort |-> NoAbort]}

\* what link_program does with the link status
LinkOutcome(success, log) ==
    IF success
    THEN {[pc |-> "init_buffers", program |-> "linked",
           shaders |-> "deleted", abort |-> NoAbort]}
    ELSE {[pc |-> "aborted", program |-> "created",
           shaders |-> "compiled", abort |-> a] :
             a \in InfoLogAbort(LinkPrefix, log)}

\* link_program(vertex_shader, fragment_shader)
LinkProgram ==
    /\ pc = "link"
    /\ \E success \in BOOLEAN, log \in InfoLogs :
          \E o \in LinkOutcome(success, log) :
             /\ pc' = o.pc
             /\ shader_program' = o.program
             /\ vertex_shader' = o.shaders
             /\ fragment_shader' = o.shaders
             /\ abort' = o.abort
    /\ UNCHANGED <<camera, should_close, events, delivered, steps, batch, prev,
                   lastEv, drawn, escaped, cursorSeen, calls, streak, frameCam>>

\* the rest of X3D::new: vertex buffer, depth test, Camera::new()
FinishNew ==
    /\ pc = "init_buffers"
    /\ camera' = CameraNew
    /\ pc' = "loop_check"
    /\ UNCHANGED <<vertex_shader, fragment_shader, shader_program, abort,
                   should_close, events, delivered, steps, batch, prev, lastEv,
                   drawn, escaped, cursorSeen, calls, streak, frameCam>>

----------------------------------------------------------------------------
(* Window events *)

Ev(t) == [type |-> t, x |-> 0, y |-> 0, yoffset |-> Fin(0)]

\* cursor coordinates and scroll offsets the window system delivers
CursorPositions == {<<0, 0>>, <<100, 0>>, <<0, -191>>}
ScrollOffsets == {Fin(1), Fin(-100), PosInf, NegInf}

\* "Other" is every event the match sends to its `_ => {}` arm
WindowEvents ==
    {Ev("KeyEscapePress"), Ev("Button1Press"), Ev("Button1Release"),
     Ev("Other")}
    \cup {[Ev("CursorPos") EXCEPT !.x = p[1], !.y = p[2]] :
             p \in CursorPositions}
    \cup {[Ev("Scroll") EXCEPT !.yoffset = o] : o \in ScrollOffsets}

RECURSIVE SeqsOfLen(_)
SeqsOfLen(k) ==
    IF k = 0 THEN {<<>>}
    ELSE {<<e>> \o q : e \in WindowEvents, q \in SeqsOfLen(k - 1)}

\* the batches of at most k events
Batches == [k \in 0..MaxEvents |-> UNION {SeqsOfLen(j) : j \in 0..k}]

----------------------------------------------------------------------------
(* Render loop *)

NumVertices == 36

Step(op, ev) == [op |-> op, ev |-> ev]

\* mutant of OnButton1Press: the press also resets last_mouse_pos
OnButton1PressReseeds(cam) ==
    [cam EXCEPT !.is_rotating = TRUE, !.last_mouse_pos = <<0, 0>>]

OnButton1Press(cam) == [cam EXCEPT !.is_rotating = TRUE]

OnButton1Release(cam) == [cam EXCEPT !.is_rotating = FALSE]

\* the match of X3D::run applied to one event
OnEvent(cam, sc, ev) ==
    CASE ev.type = "KeyEscapePress" ->
            [camera |-> cam, should_close |-> TRUE]
      [] ev.type = "Button1Press" ->
            [camera |-> OnButton1Press(cam), should_close |-> sc]
      [] ev.type = "Button1Release" ->
            [camera |-> OnButton1Release(cam), should_close |-> sc]
      [] ev.type = "CursorPos" ->
            [camera |-> ProcessMouse(cam, ev.x, ev.y), should_close |-> sc]
      [] ev.type = "Scroll" ->
            [camera |-> ProcessScroll(cam, ev.yoffset), should_close |-> sc]
      [] OTHER ->
            [camera |-> cam, should_close |-> sc]

\* mutant of ForLoopContinues: the loop breaks once the flag is set
ForLoopBreaksOnClose(evs, sc) == evs # <<>> /\ ~sc

\* the for loop over flush_messages runs while messages remain
ForLoopContinues(evs, sc) == evs # <<>>

\* while !self.window.should_close()
LoopCheck ==
    /\ pc = "loop_check"
    /\ \/ /\ should_close
          /\ pc' = "returned"
          /\ UNCHANGED <<steps, batch>>
       \/ /\ ~should_close
          /\ pc' = "poll"
          /\ steps' = <<>>
          /\ batch' = <<>>
    /\ UNCHANGED <<vertex_shader, fragment_shader, shader_program, abort,
                   camera, should_close, events, delivered, prev, lastEv, drawn,
                   escaped, cursorSeen, calls, streak, frameCam>>

\* self.glfw.poll_events(): the window system queues the pending events and
\* raises the should-close flag when the user asked to close the window
PollEvents ==
    /\ pc = "poll"
    /\ \E b \in Batches[MaxEvents - delivered], closeRequested \in BOOLEAN :
          /\ events' = b
          /\ batch' = b
          /\ delivered' = delivered + Len(b)
          /\ should_close' = (should_close \/ closeRequested)
    /\ steps' = Append(steps, Step("poll", Ev("None")))
    /\ frameCam' = camera
    /\ prev' = camera
    /\ lastEv' = Ev("None")
    /\ pc' = "dispatch"
    /\ UNCHANGED <<vertex_shader, fragment_shader, shader_program, abort,
                   camera, drawn, escaped, cursorSeen, calls, streak>>

\* one turn of the for loop
DispatchEvent ==
    /\ pc = "dispatch"
    /\ ForLoopContinues(events, should_close)
    /\ LET ev == Head(events)
           r == OnEvent(camera, should_close, ev)
       IN  /\ camera' = r.camera
           /\ should_close' = r.should_close
           /\ prev' = camera
           /\ lastEv' = ev
           /\ steps' = Append(steps, Step("dispatch", ev))
           /\ escaped' = (escaped \/ ev.type = "KeyEscapePress")
           /\ cursorSeen' = IF ev.type = "CursorPos"
                            THEN <<ev.x, ev.y>> ELSE cursorSeen
    /\ events' = Tail(events)
    /\ UNCHANGED <<pc, vertex_shader, fragment_shader, shader_program, abort,
                   delivered, batch, drawn, calls, streak, frameCam>>

\* gl::Clear(COLOR_BUFFER_BIT | DEPTH_BUFFER_BIT), once the for loop is over
Clear ==
    /\ pc = "dispatch"
    /\ ~ForLoopContinues(events, should_close)
    /\ events' = <<>>
    /\ steps' = Append(steps, Step("clear", Ev("None")))
    /\ pc' = "render"
    /\ UNCHANGED <<vertex_shader, fragment_shader, shader_program, abort,
                   camera, should_close, delivered, batch, prev, lastEv, drawn,
                   escaped, cursorSeen, calls, streak, frameCam>>

\* mutant of RenderCube: the frame is drawn with the camera of the poll
RenderCubeStale ==
    /\ pc = "render"
    /\ drawn' = [view |-> GetViewMatrix(frameCam), program |-> shader_program,
                 count |-> NumVertices]
    /\ steps' = Append(steps, Step("draw", Ev("None")))
    /\ pc' = "swap"
    /\ UNCHANGED <<vertex_shader, fragment_shader, shader_program, abort,
                   camera, should_close, events, delivered, batch, prev,
                   lastEv, escaped, cursorSeen, calls, streak, frameCam>>

\* self.render_cube()
RenderCube ==
    /\ pc = "render"
    /\ drawn' = [view |-> GetViewMatrix(camera), program |-> shader_program,
                 count |-> NumVertices]
    /\ steps' = Append(steps, Step("draw", Ev("None")))
    /\ pc' = "swap"
    /\ UNCHANGED <<vertex_shader, fragment_shader, shader_program, abort,
                   camera, should_close, events, delivered, batch, prev, lastEv,
                   escaped, cursorSeen, calls, streak, frameCam>>

\* self.window.swap_buffers()
SwapBuffers ==
    /\ pc = "swap"
    /\ steps' = Append(steps, Step("present", Ev("None")))
    /\ pc' = "loop_check"
    /\ UNCHANGED <<vertex_shader, fragment_shader, shader_program, abort,
                   camera, should_close, events, delivered, batch, prev, lastEv,
                   drawn, escaped, cursorSeen, calls, streak, frameCam>>

----------------------------------------------------------------------------
(* The program: main() *)

NothingDrawn ==
    [view |-> GetViewMatrix(CameraNew), program |-> "none", count |-> 0]

Init ==
    /\ pc = "compile_vertex"
    /\ vertex_shader = "none"
    /\ fragment_shader = "none"
    /\ shader_program = "none"
    /\ abort = NoAbort
    /\ camera = CameraNew
    /\ should_close = FALSE
    /\ events = <<>>
    /\ delivered = 0
    /\ steps = <<>>
    /\ batch = <<>>
    /\ prev = CameraNew
    /\ lastEv = Ev("None")
    /\ drawn = NothingDrawn
    /\ escaped = FALSE
    /\ cursorSeen = <<0, 0>>
    /\ calls = 0
    /\ streak = "none"
    /\ frameCam = CameraNew

Next ==
    \/ CompileVertex
    \/ CompileFragment
    \/ LinkProgram
    \/ FinishNew
    \/ LoopCheck
    \/ PollEvents
    \/ DispatchEvent
    \/ Clear
    \/ RenderCube
    \/ SwapBuffers

Spec == Init /\ [][Next]_vars

----------------------------------------------------------------------------
(* The Camera alone, driven by repeated process_scroll calls *)

HarnessOffsets == {Fin(1), Fin(-1), Fin(0), Fin(100), PosInf, NegInf}

StreakAfter(s, off) ==
    IF off = Fin(1) /\ s \in {"none", "plus"} THEN "plus"
    ELSE IF off = Fin(-1) /\ s \in {"none", "minus"} THEN "minus"
    ELSE "mixed"

CallProcessScroll ==
    /\ pc = "camera"
    /\ calls < MaxScrolls
    /\ \E off \in HarnessOffsets :
          /\ camera' = ProcessScroll(camera, off)
          /\ lastEv' = [Ev("Scroll") EXCEPT !.yoffset = off]
          /\ streak' = StreakAfter(streak, off)
    /\ prev' = camera
    /\ calls' = calls + 1
    /\ UNCHANGED <<pc, vertex_shader, fragment_shader, shader_program, abort,
                   should_close, events, delivered, steps, batch, drawn,
                   escaped, cursorSeen, frameCam>>

InitCamera ==
    /\ pc = "camera"
    /\ vertex_shader = "none"
    /\ fragment_shader = "none"
    /\ shader_program = "none"
    /\ abort = NoAbort
    /\ camera = CameraNew
    /\ should_close = FALSE
    /\ events = <<>>
    /\ delivered = 0
    /\ steps = <<>>
    /\ batch = <<>>
    /\ prev = CameraNew
    /\ lastEv = Ev("None")
    /\ drawn = NothingDrawn
    /\ escaped = FALSE
    /\ cursorSeen = <<0, 0>>
    /\ calls = 0
    /\ streak = "none"
    /\ frameCam = CameraNew

NextCamera == CallProcessScroll

SpecCamera == InitCamera /\ [][NextCamera]_vars

----------------------------------------------------------------------------
(* Properties *)

LoopPcs == {"loop_check", "poll", "dispatch", "render", "swap", "returned"}

CursorEvent == lastEv.type = "CursorPos"

\* what a complete iteration that polled batch b has done, in order
ExpectedSteps(b) ==
    <<Step("poll", Ev("None"))>>
    \o [i \in 1..Len(b) |-> Step("dispatch", b[i])]
    \o <<Step("clear", Ev("None")), Step("draw", Ev("None")),
         Step("present", Ev("None"))>>

\* the camera after the events of b were applied in order to cam
RECURSIVE AfterEvents(_, _)
AfterEvents(cam, b) ==
    IF b = <<>> THEN cam
    ELSE AfterEvents(OnEvent(cam, FALSE, Head(b)).camera, Tail(b))

ClampInt(n, lo, hi) == IF n < lo THEN lo ELSE IF n > hi THEN hi ELSE n

\* C1: in every reachable state of the program, whatever scroll offsets
\* (of any magnitude and sign) and other events were dispatched, the zoom
\* lies in [0.1, 5.0].
C1_ZoomClamped == ZoomMin <= camera.zoom /\ camera.zoom <= ZoomMax

\* a scroll beyond the f32 range was dispatched after cursor and button
\* events, and the zoom sits on the upper bound
C1_Witness ==
    /\ lastEv.type = "Scroll"
    /\ lastEv.yoffset = NegInf
    /\ camera.zoom = ZoomMax
    /\ prev.zoom < ZoomMax
    /\ cursorSeen # <<0, 0>>
    /\ camera.is_rotating

\* C2: a cursor event dispatched while is_rotating is false changes
\* last_mouse_pos to the event's coordinates and nothing else of the camera.
C2_IdleMouseOnlyMovesLast ==
    (CursorEvent /\ ~prev.is_rotating) =>
        camera = [prev EXCEPT !.last_mouse_pos = <<lastEv.x, lastEv.y>>]

\* after a press and a release, a cursor event to a new place
C2_Witness ==
    /\ CursorEvent
    /\ ~prev.is_rotating
    /\ prev.last_mouse_pos # <<lastEv.x, lastEv.y>>
    /\ camera.last_mouse_pos = <<lastEv.x, lastEv.y>>
    /\ Len(steps) = 4
    /\ steps[2].ev.type = "Button1Press"
    /\ steps[3].ev.type = "Button1Release"

\* C3: process_scroll sets zoom to clamp(zoom - 0.1 * offset, 0.1, 5.0) (to
\* within an f32 rounding step of 2^-21 = 64 units); one scroll of +1.0 from
\* the default camera gives 0.9f32, after 61 scrolls of +1.0 the zoom is 0.1
\* and a non-negative offset leaves it there; scrolls of -1.0 saturate at
\* 5.0 and a non-positive offset leaves it there.
C3_ScrollLaw ==
    LET off == lastEv.yoffset
    IN  /\ (lastEv.type = "Scroll" /\ off.inf = 0 /\ Abs(off.n) <= 1) =>
              Abs(camera.zoom
                  - ClampInt(prev.zoom - off.n * ZoomStep, ZoomMin, ZoomMax))
                <= 64
        /\ (lastEv.type = "Scroll" /\ (off.inf = 1 \/ off.n >= 50)) =>
              camera.zoom = ZoomMin
        /\ (lastEv.type = "Scroll" /\ (off.inf = -1 \/ off.n <= -50)) =>
              camera.zoom = ZoomMax
        /\ (streak = "plus" /\ calls = 1) => camera.zoom = 120795952
        /\ (streak = "plus" /\ calls >= 61) => camera.zoom = ZoomMin
        /\ (streak = "minus" /\ calls >= 41) => camera.zoom = ZoomMax
        /\ (lastEv.type = "Scroll" /\ prev.zoom = ZoomMin
              /\ (off.inf = 1 \/ (off.inf = 0 /\ off.n >= 0))) =>
              camera.zoom = ZoomMin
        /\ (lastEv.type = "Scroll" /\ prev.zoom = ZoomMax
              /\ (off.inf = -1 \/ (off.inf = 0 /\ off.n <= 0))) =>
              camera.zoom = ZoomMax

\* the scenario's end: 61 scrolls of +1.0 and nothing else
C3_Witness ==
    /\ streak = "plus"
    /\ calls = 61
    /\ camera.zoom = ZoomMin
    /\ prev.zoom = ZoomMin

\* C4: a cursor event dispatched while is_rotating is true pitches
\* position - target by 0.005 * (last_y - y) about the right vector, then
\* yaws it by 0.005 * (x - last_x) about up; from last_mouse_pos (0,0) the
\* event (100, 0) gives pitch 0 and yaw exactly 0.5 rad (2^30 units), so
\* the elevation is kept and the azimuth advances by 500 mrad.
C4_RotationAngles ==
    (CursorEvent /\ prev.is_rotating) =>
        LET lx == prev.last_mouse_pos[1]
            ly == prev.last_mouse_pos[2]
            pitch == F32Round((ly - lastEv.y) * Sensitivity)
            yaw == F32Round((lastEv.x - lx) * Sensitivity)
        IN  /\ camera.position
                 = Yaw(Pitch(prev.position, pitch, Right(prev.position)), yaw)
            /\ (lx = 0 /\ ly = 0 /\ lastEv.x = 100 /\ lastEv.y = 0) =>
                  /\ pitch = 0
                  /\ yaw = 1073741824
                  /\ MouseDelta(prev, 100, 0) = [dx |-> 1073741824, dy |-> 0]
                  /\ (Right(prev.position) = "horizontal") =>
                        camera.position =
                            [prev.position EXCEPT
                                !.azim = (@ + 500) % FullTurn]

\* the scenario: rotating, last_mouse_pos (0,0), process_mouse(100, 0)
C4_Witness ==
    /\ CursorEvent
    /\ prev.is_rotating
    /\ prev.last_mouse_pos = <<0, 0>>
    /\ lastEv.x = 100
    /\ lastEv.y = 0
    /\ prev.position = CameraNew.position
    /\ camera.position.azim = InitAzimuth + 500
    /\ camera.position.elev = InitElevation

\* C5: a failed compile or link ends the process with a panic whose message
\* is the fixed prefix followed by the driver's info log, for every info-log
\* length, 0 included.
C5_AbortCarriesLog ==
    pc = "aborted" =>
        /\ abort.kind = "panic"
        /\ abort.prefix \in {CompilePrefix, LinkPrefix}
        /\ abort.text = abort.log.text

\* a failure whose info log has characters does panic with prefix and log
C5_Witness ==
    /\ pc = "aborted"
    /\ abort.kind = "panic"
    /\ abort.log.len = MaxLogLen
    /\ abort.text = abort.log.text

\* C6: once an Escape press has been dispatched the flag is set and stays
\* set, the iteration that dispatched it runs to its end (every event of its
\* batch dispatched, then clear, draw, present), and the loop-condition
\* check that follows returns from run() instead of starting an iteration.
C6_EscapeInv ==
    escaped =>
        /\ should_close
        /\ pc \in {"dispatch", "render", "swap", "loop_check", "returned"}
        /\ \E i \in 1..Len(batch) : batch[i].type = "KeyEscapePress"
        /\ (pc \in {"loop_check", "returned"}) =>
              /\ steps = ExpectedSteps(batch)
              /\ camera = AfterEvents(frameCam, batch)
              /\ drawn.view = GetViewMatrix(camera)

C6_EscapeStep ==
    /\ should_close => should_close'
    /\ (should_close /\ pc = "loop_check") =>
          pc' \in {"loop_check", "returned"}
    /\ (should_close /\ pc = "dispatch" /\ events # <<>>) =>
          pc' = "dispatch" /\ Len(events') >= Len(events) - 1
    /\ pc = "returned" => pc' = "returned"

C6_EscapeCloses == [](C6_EscapeInv) /\ [][C6_EscapeStep]_vars

\* Escape came first in a batch of two; run() has returned after the frame
C6_Witness ==
    /\ pc = "returned"
    /\ escaped
    /\ Len(batch) = 2
    /\ batch[1].type = "KeyEscapePress"
    /\ batch[2].type = "Scroll"
    /\ camera.zoom # ZoomInit
    /\ drawn.view.eye.scale = camera.zoom

SetupRank(p) ==
    CASE p = "compile_vertex" -> 0
      [] p = "compile_fragment" -> 1
      [] p = "link" -> 2
      [] p = "init_buffers" -> 3
      [] p = "aborted" -> 5
      [] OTHER -> 4

C8_SetupInv ==
    /\ fragment_shader # "none" => vertex_shader \in {"compiled", "deleted"}
    /\ shader_program # "none" =>
          /\ vertex_shader \in {"compiled", "deleted"}
          /\ fragment_shader \in {"compiled", "deleted"}
    /\ (vertex_shader = "deleted" \/ fragment_shader = "deleted") =>
          shader_program = "linked"
    /\ shader_program = "linked" =>
          vertex_shader = "deleted" /\ fragment_shader = "deleted"
    /\ pc = "aborted" =>
          /\ shader_program # "linked"
          /\ steps = <<>>
          /\ delivered = 0
          /\ drawn = NothingDrawn
          /\ abort.kind # "none"
    /\ pc \in {"init_buffers"} \cup LoopPcs =>
          shader_program = "linked" /\ abort.kind = "none"
    /\ SetupRank(pc) >= 1 /\ pc # "aborted" =>
          vertex_shader \in {"compiled", "deleted"}
    /\ SetupRank(pc) >= 2 /\ pc # "aborted" =>
          fragment_shader \in {"compiled", "deleted"}

C8_SetupStep ==
    /\ SetupRank(pc) <= SetupRank(pc')
    /\ pc = "aborted" => pc' = "aborted"
    /\ shader_program = "linked" => shader_program' = "linked"

C8_SetupOneWay == [](C8_SetupInv) /\ [][C8_SetupStep]_vars

\* both shaders compiled, the link failed, the process is dead
C8_Witness ==
    /\ pc = "aborted"
    /\ vertex_shader = "compiled"
    /\ fragment_shader = "compiled"
    /\ shader_program = "created"
    /\ abort.prefix = LinkPrefix

\* C9: an iteration polls, dispatches every event of the batch in arrival
\* order, clears, draws 36 vertices with the linked program and presents,
\* each once and in this order; the draw uses the camera as it is after all
\* the events of the batch.
C9_FrameOrder ==
    IF pc \in {"loop_check", "returned"} /\ steps = <<>>
    THEN drawn = NothingDrawn /\ camera = CameraNew
    ELSE pc \in LoopPcs =>
        LET k == Len(batch)
            full == ExpectedSteps(batch)
            done == CASE pc = "poll" -> 0
                      [] pc = "dispatch" -> 1 + k - Len(events)
                      [] pc = "render" -> k + 2
                      [] pc = "swap" -> k + 3
                      [] OTHER -> k + 4
        IN  /\ steps = SubSeq(full, 1, done)
            /\ pc = "dispatch" => events = SubSeq(batch, done, k)
            /\ pc \in {"swap", "loop_check", "returned"} =>
                  /\ camera = AfterEvents(frameCam, batch)
                  /\ drawn =
                       [view |-> [eye |-> [position |-> camera.position,
                                           scale |-> camera.zoom],
                                  center |-> camera.target,
                                  up |-> camera.up],
                        program |-> "linked",
                        count |-> 36]

\* a later iteration drew a camera that both events of its batch changed
C9_Witness ==
    /\ pc = "swap"
    /\ Len(batch) = 2
    /\ batch[1].type = "Scroll"
    /\ batch[2].type = "CursorPos"
    /\ frameCam.is_rotating
    /\ drawn.view.eye.scale # frameCam.zoom
    /\ drawn.view.eye.position # frameCam.position

\* C10: last_mouse_pos is the place of the most recently dispatched cursor
\* event, (0,0) before the first; button, key and scroll events leave it
\* alone, so the first cursor event after a press rotates by the distance
\* from the last cursor event before the press ((0,0) if there was none).
C10_LastMousePos ==
    /\ camera.last_mouse_pos = cursorSeen
    /\ (lastEv.type \notin {"CursorPos", "None"}) =>
          camera.last_mouse_pos = prev.last_mouse_pos
    /\ (CursorEvent /\ prev.is_rotating /\ pc = "dispatch"
          /\ Len(steps) >= 3
          /\ steps[Len(steps) - 1].ev.type = "Button1Press") =>
          LET n == Len(steps) - 2
              before == IF \E i \in 1..n : steps[i].ev.type = "CursorPos"
                        THEN LET j == CHOOSE i \in 1..n :
                                     /\ steps[i].ev.type = "CursorPos"
                                     /\ \A m \in (i + 1)..n :
                                           steps[m].ev.type # "CursorPos"
                             IN  <<steps[j].ev.x, steps[j].ev.y>>
                        ELSE frameCam.last_mouse_pos
          IN  camera.position =
                 Yaw(Pitch(prev.position,
                           F32Round((before[2] - lastEv.y) * Sensitivity),
                           Right(prev.position)),
                     F32Round((lastEv.x - before[1]) * Sensitivity))

\* a press with no earlier cursor event, then a cursor event at (0,-191):
\* the camera pitches by the whole distance from (0,0), onto the up axis
C10_Witness ==
    /\ frameCam = CameraNew
    /\ batch = <<Ev("Button1Press"),
                 [Ev("CursorPos") EXCEPT !.x = 0, !.y = -191]>>
    /\ events = <<>>
    /\ pc = "dispatch"
    /\ camera.position.elev = InitElevation + 955
    /\ camera.last_mouse_pos = <<0, -191>>

====
